---- MODULE Spec2Model ----
(***************************************************************************)
(* A model of hetzner/server.py: the resource objects that mirror a       *)
(* dedicated server at the provider (RescueSystem, AdminAccount,          *)
(* IpAddress, Subnet, Server and the two managers), the requests they     *)
(* issue through the transport (conn) and the scraping session (scraper), *)
(* and the SSHAskPassHelper with its temporary script.                    *)
(*                                                                         *)
(* Every method is one action.  A method body is written as a chain of    *)
(* steps over a "frame" [self, reqs, exc, ...]: self is the object, reqs  *)
(* the requests issued so far by the running call, exc the exception that *)
(* is propagating ("none" when there is none).  What the provider answers *)
(* is an input of the action, drawn with \E.                              *)
(*                                                                         *)
(* Python values: a value that may be None is None or Some(v).            *)
(***************************************************************************)
EXTENDS Integers, Sequences, FiniteSets, TLC

VARIABLES
    focus,      \* the object this run works with; the objects share no field
    rescue,     \* the RescueSystem object: _active, _password, _authorized_keys
    src,        \* for each field of rescue, which document it was taken from: 0 for
                \* none, else the document's rank among those still held
    admin,      \* the AdminAccount object: exists, login, passwd
    remote,     \* the admin account at the provider: None, or Some(its login)
    ipaddr,     \* the IpAddress object
    held,       \* the document the caller of IpAddress passed last and still holds,
                \* as the call left it, with the network address it came with
    canon,      \* the network address the transport gave in the document that
                \* ipaddr._subnet_addr was assigned from
    subnet,     \* the Subnet object
    server,     \* the Server object
    ips,        \* its IpManager (server.ips)
    subnetManager,  \* a SubnetManager made for the server
    helper,     \* the SSHAskPassHelper object made last: passwd, tempdir, script
    fs,         \* what there is on disk of what that helper made: dir tells whether
                \* its temporary directory is there, file is None or Some(content)
    op,         \* the call that ran last
    args,       \* its arguments
    reqs,       \* the requests that call issued, in order
    ret,        \* how that call ended: the exception raised ("none" for a normal
                \* return) with its status and message, the value returned
    prev        \* op, args, reqs and ret of the call on rescue before the last
                \* one, kept when that call was an activate

rescueVars == <<rescue, src, prev>>
adminVars == <<admin, remote>>
ipVars == <<ipaddr, held, canon>>
serverVars == <<server, ips, subnetManager>>
askVars == <<helper, fs>>
callVars == <<op, args, reqs, ret>>
vars == <<focus, rescueVars, adminVars, ipVars, subnet, serverVars, askVars, callVars>>

------------------------------------------------------------------------------
(* Python values *)

None == <<>>
Some(v) == <<v>>
Val(o) == o[1]

\* bool(x) for x a bool or None
IsTrue(o) == o = Some(TRUE)

------------------------------------------------------------------------------
(* The transport: conn.get / conn.post / conn.request *)

\* statuses a RobotError carries
Statuses == {404, 500}

Request(method, path, opts) == [method |-> method, path |-> path, opts |-> opts]

\* a transport call inside a running call: the request goes out, and either
\* a document comes back (one of Documents, kept in the frame as doc) or
\* RobotError is raised with one of the statuses.  The set of frames the
\* call can end in.
Send(st, method, path, opts, Documents) ==
    LET sent == [st EXCEPT !.reqs = Append(@, Request(method, path, opts))]
    IN  {[sent EXCEPT !.doc = d] : d \in Documents}
        \cup {[sent EXCEPT !.exc = "RobotError", !.status = s] : s \in Statuses}

\* a call starts with no request issued and no exception raised
NewFrame ==
    [reqs |-> <<>>, exc |-> "none", status |-> 0, msg |-> "", doc |-> <<>>,
     reply |-> None, value |-> None]

Raise(st, exc) == [st EXCEPT !.exc = exc]
Return(st, value) == [st EXCEPT !.value = value]

\* the call is over: what it issued and how it ended are on record
Called(name, arguments, st) ==
    /\ op' = name
    /\ args' = arguments
    /\ reqs' = st.reqs
    /\ ret' = [exc |-> st.exc, status |-> st.status, msg |-> st.msg,
               reply |-> st.reply, value |-> IF st.exc = "none" THEN st.value ELSE None]

NoCall ==
    [op |-> "none", args |-> <<>>, reqs |-> <<>>,
     ret |-> [exc |-> "none", status |-> 0, msg |-> "", reply |-> None, value |-> None]]

\* statement sequencing: of the frames S a statement can end in, those where
\* an exception propagates (the call ends there) and those that go on
Raised(S) == {s \in S : s.exc # "none"}
Passed(S) == {s \in S : s.exc = "none"}

\* obj.attr = value, or d[key] = value
SetAttr(obj, attr, value) ==
    [a \in DOMAIN obj \cup {attr} |-> IF a = attr THEN value ELSE obj[a]]

\* self.attr = data[key] for each <<attr, key>> of pairs, in order; the first
\* key that data lacks raises KeyError and leaves the rest unassigned
RECURSIVE AssignFields(_, _, _)
AssignFields(obj, data, pairs) ==
    IF pairs = <<>> THEN [obj |-> obj, exc |-> "none"]
    ELSE IF Head(pairs)[2] \notin DOMAIN data THEN [obj |-> obj, exc |-> "KeyError"]
    ELSE AssignFields(SetAttr(obj, Head(pairs)[1], data[Head(pairs)[2]]),
                      data, Tail(pairs))

\* self.k = data[k] for each k of keys, in order
Same(keys) == [i \in DOMAIN keys |-> <<keys[i], keys[i]>>]

------------------------------------------------------------------------------
(* RescueSystem *)

ServerNumbers == {321}
server_number == CHOOSE n \in ServerNumbers : TRUE

RescuePath == [kind |-> "boot_rescue", key |-> server_number]

RescueKeys == {"active", "password", "authorized_key"}

\* the "rescue" member of a well-formed status document: rescue system off,
\* on with a password, on with a password and an authorized key
RescueOff == [active |-> Some(FALSE), password |-> None, authorized_key |-> Some(<<>>)]
RescueOn(keys) == [active |-> Some(TRUE), password |-> Some("pw1"), authorized_key |-> Some(keys)]
RescueFull == {RescueOff, RescueOn(<<>>), RescueOn(<<"k1">>)}

\* ... and of a malformed one, which lacks a key
RescueBodies ==
    RescueFull \cup {[k \in RescueKeys \ {m} |-> RescueOn(<<"k1">>)[k]] : m \in RescueKeys}

\* a status document; a malformed one has no "rescue" member
RescueDocs == {[rescue |-> b] : b \in RescueBodies} \cup {[error |-> None]}

\* RescueSystem.__init__
RescueInit == [_active |-> None, _password |-> None, _authorized_keys |-> None]

RescueAssignments ==
    << <<"_active", "active">>,
       <<"_password", "password">>,
       <<"_authorized_keys", "authorized_key">> >>

\* the documents the fields come from are numbered in the order they arrived
Held(s) == {s[f] : f \in DOMAIN s} \ {0}
NewDoc(s) == Cardinality(Held(s)) + 1
Ranked(s) == [f \in DOMAIN s |-> Cardinality({d \in Held(s) : d <= s[f]})]

\* _update_status once the document is in hand: the three assignments, and
\* with them the record of which document each field now comes from
Adopt(st, data) ==
    IF "rescue" \notin DOMAIN data THEN Raise(st, "KeyError")
    ELSE LET id == NewDoc(st.src)
             a == AssignFields(st.self, data.rescue, RescueAssignments)
             g == AssignFields(st.src, [k \in DOMAIN data.rescue |-> id],
                               RescueAssignments)
         IN  [st EXCEPT !.self = a.obj, !.src = Ranked(g.obj), !.exc = a.exc]

\* RescueSystem._update_status(data): data is None or Some(document)
_update_status(st, data) ==
    IF data = None
    THEN LET got == Send(st, "get", RescuePath, None, RescueDocs)
         IN  Raised(got) \cup {Adopt(s1, s1.doc) : s1 \in Passed(got)}
    ELSE {Adopt(st, Val(data))}

\* the properties active, password, authorized_keys
Property(st, attr) ==
    LET known == IF st.self[attr] # None THEN {st} ELSE _update_status(st, None)
    IN  Raised(known) \cup {Return(s1, s1.self[attr]) : s1 \in Passed(known)}

\* what a reply reports as "active": None when it does not say
Reported(doc) ==
    IF "rescue" \in DOMAIN doc /\ "active" \in DOMAIN doc.rescue
    THEN doc.rescue.active ELSE None

\* RescueSystem._rescue_action
_rescue_action(st, method, opts) ==
    LET got == Send(st, method, RescuePath, opts, RescueDocs)
    IN  Raised(got)
        \cup UNION {_update_status([s1 EXCEPT !.reply = Reported(s1.doc)], Some(s1.doc)) :
                       s1 \in Passed(got)}

ActivateOpts(authorized_keys) ==
    IF authorized_keys # None
    THEN Some([os |-> "linux", arch |-> 64, authorized_key |-> Val(authorized_keys)])
    ELSE Some([os |-> "linux", arch |-> 64])

\* an activate that posts without looking at the cached state
activate_Unconditional(st, authorized_keys) ==
    _rescue_action(st, "post", ActivateOpts(authorized_keys))

\* RescueSystem.activate
activate(st, authorized_keys) ==
    LET read == Property(st, "_active")
    IN  Raised(read)
        \cup UNION {IF ~IsTrue(s1.self._active)
                    THEN _rescue_action(s1, "post", ActivateOpts(authorized_keys))
                    ELSE {Return(s1, None)} : s1 \in Passed(read)}

\* a deactivate that goes by "not unknown" instead of "active"
deactivate_WhenKnown(st) ==
    LET read == Property(st, "_active")
    IN  Raised(read)
        \cup UNION {IF s1.self._active # None
                    THEN _rescue_action(s1, "delete", None)
                    ELSE {Return(s1, None)} : s1 \in Passed(read)}

\* RescueSystem.deactivate
deactivate(st) ==
    LET read == Property(st, "_active")
    IN  Raised(read)
        \cup UNION {IF IsTrue(s1.self._active)
                    THEN _rescue_action(s1, "delete", None)
                    ELSE {Return(s1, None)} : s1 \in Passed(read)}

\* Server.observed_reboot, which hands over to server.reset.observed_reboot:
\* the reboot-and-wait primitive.  Its invocation goes on the record of the
\* call among the requests; it returns when the machine is back, or fails.
Server_observed_reboot(st) ==
    LET invoked == [st EXCEPT !.reqs = Append(@, Request("observed_reboot",
                                  [kind |-> "reset", key |-> server_number], None))]
    IN  {invoked, Raise(invoked, "ResetError")}

\* an observed_activate that reboots before it activates
observed_activate_RebootFirst(st, authorized_keys) ==
    LET booted == Server_observed_reboot(st)
    IN  Raised(booted) \cup UNION {activate(s1, authorized_keys) : s1 \in Passed(booted)}

\* RescueSystem.observed_activate
observed_activate(st, authorized_keys) ==
    LET flipped == activate(st, authorized_keys)
    IN  Raised(flipped) \cup UNION {Server_observed_reboot(s1) : s1 \in Passed(flipped)}

\* RescueSystem.observed_deactivate
observed_deactivate(st) ==
    LET flipped == deactivate(st)
    IN  Raised(flipped) \cup UNION {Server_observed_reboot(s1) : s1 \in Passed(flipped)}

RescueStart == [self |-> rescue, src |-> src] @@ NewFrame

RescueFinish(name, arguments, st) ==
    /\ focus = "rescue"
    /\ rescue' = st.self
    /\ src' = st.src
    /\ prev' = IF op = "activate"
               THEN [op |-> op, args |-> args, reqs |-> reqs, ret |-> ret]
               ELSE NoCall
    /\ Called(name, arguments, st)
    /\ UNCHANGED <<focus, adminVars, ipVars, subnet, serverVars, askVars>>

ReadActive ==
    \E st \in Property(RescueStart, "_active") : RescueFinish("active", <<>>, st)

ReadPassword ==
    \E st \in Property(RescueStart, "_password") : RescueFinish("password", <<>>, st)

ReadAuthorizedKeys ==
    \E st \in Property(RescueStart, "_authorized_keys") :
        RescueFinish("authorized_keys", <<>>, st)

Activate ==
    \E keys \in {None, Some(<<"k1">>)} :
        \E st \in activate(RescueStart, keys) : RescueFinish("activate", <<keys>>, st)

Deactivate ==
    \E st \in deactivate(RescueStart) : RescueFinish("deactivate", <<>>, st)

ObservedActivate ==
    \E keys \in {None, Some(<<"k1">>)} :
        \E st \in observed_activate(RescueStart, keys) :
            RescueFinish("observed_activate", <<keys>>, st)

ObservedDeactivate ==
    \E st \in observed_deactivate(RescueStart) :
        RescueFinish("observed_deactivate", <<>>, st)

NextRescue ==
    \/ ObservedActivate
    \/ ObservedDeactivate
    \/ ReadActive
    \/ ReadPassword
    \/ ReadAuthorizedKeys
    \/ Activate
    \/ Deactivate

------------------------------------------------------------------------------
(* AdminAccount *)

\* logins the provider gives an admin account
RemoteLogins == {"K1001"}

\* what a caller passes as passwd, and what _genpasswd can return
SuppliedPasswords == {"secret"}
GeneratedPasswords == {"gen-A", "gen-B"}

\* statuses of a scraped response (the provider answers a rejected form with
\* 200 as well)
HttpStatuses == {200, 500}

\* AdminAccount.__init__, against a provider where the server has no admin
\* account: update_info finds no login
AdminInit == [exists |-> FALSE, login |-> None, passwd |-> None]

AdminPage == [kind |-> "server/admin/id", key |-> server_number]
AdminCreatePage == [kind |-> "server/adminCreate/id", key |-> server_number]
AdminUpdatePage == [kind |-> "server/adminUpdate", key |-> 0]
AdminDeletePage == [kind |-> "server/adminDelete/id", key |-> server_number]

\* a scraper call: the request goes out and a response with one of the
\* statuses and one of the bodies comes back (kept in the frame as doc)
Scrape(st, method, path, data, Bodies) ==
    LET sent == [st EXCEPT !.reqs = Append(@, Request(method, path, data))]
    IN  {[sent EXCEPT !.doc = [status |-> h, body |-> b]] :
            h \in HttpStatuses, b \in Bodies}

\* scraper.login(); it and scraper.request raise nothing here
ScraperLogin(st) ==
    {[st EXCEPT !.reqs = Append(@, Request("login", [kind |-> "login", key |-> 0], None))]}

\* the account page shows the login of the account the server has
AccountPages(account) == {[login |-> account]}

\* AdminAccount.update_info
AdminUpdate_info(st) ==
    UNION {
        LET got == Scrape(s1, "GET", AdminPage, None, AccountPages(s1.remote))
        IN  {IF s2.doc.status # 200 THEN Raise(s2, "AssertionError")
             ELSE IF s2.doc.body.login = None               \* match is None
                  THEN [s2 EXCEPT !.self.exists = FALSE]
                  ELSE [s2 EXCEPT !.self.exists = TRUE,
                                  !.self.login = s2.doc.body.login] : s2 \in got}
        : s1 \in ScraperLogin(st)}

\* the form page: the anti-forgery token, None when the page has none
FormPages == {[csrf_token |-> None], [csrf_token |-> Some("tok1")]}

\* the page that answers a submitted form: whether it holds "msgbox_success",
\* and the <li> entries of its error_list, None when it has no such list
SubmitPages ==
    {[msgbox_success |-> TRUE, error_list |-> None]}
    \cup {[msgbox_success |-> FALSE, error_list |-> e] :
            e \in {None, Some(<<"too short">>), Some(<<"too short", "no digit">>)}}

\* ", ".join(errors)
RECURSIVE Join(_)
Join(errors) ==
    IF errors = <<>> THEN ""
    ELSE IF Len(errors) = 1 THEN errors[1]
    ELSE errors[1] \o ", " \o Join(Tail(errors))

\* the provider acts on a form it answers with the success marker
Created(account) ==
    IF account # None THEN {account} ELSE {Some(l) : l \in RemoteLogins}

FormData(passwd, token) ==
    [new_password |-> passwd, new_password_repeat |-> passwd, _csrf_token |-> token]

\* a create that skips the discovery after a successful submission
AdminAdopt_NoDiscovery(st, passwd) ==
    LET s4 == [st EXCEPT !.self.passwd = Some(passwd)]
    IN  {Return(s4, Some(<<s4.self.login, s4.self.passwd>>))}

\* AdminAccount.create after a successful submission (lines 251-253)
AdminAdopt(st, passwd) ==
    LET found == AdminUpdate_info(st)
    IN  Raised(found)
        \cup {Return([s3 EXCEPT !.self.passwd = Some(passwd)],
                     Some(<<s3.self.login, Some(passwd)>>)) : s3 \in Passed(found)}

\* a create that reports only the first reason of a rejected submission and
\* re-runs the discovery all the same
AdminReject_FirstReason(st, page, failmsg) ==
    IF page.error_list # None
    THEN {[s EXCEPT !.exc = "WebRobotError",
                    !.msg = failmsg \o ": " \o Val(page.error_list)[1]] :
             s \in AdminUpdate_info(st)}
    ELSE {[st EXCEPT !.exc = "WebRobotError", !.msg = failmsg]}

\* AdminAccount.create after a submission answered without the success
\* marker (lines 243-250)
AdminReject(st, page, failmsg) ==
    IF page.error_list # None
    THEN {[st EXCEPT !.exc = "WebRobotError",
                     !.msg = failmsg \o ": " \o Join(Val(page.error_list))]}
    ELSE {[st EXCEPT !.exc = "WebRobotError", !.msg = failmsg]}

\* AdminAccount.create from the submission on (lines 240-253)
AdminSubmit(st, passwd, failmsg, path, data) ==
    UNION {
        LET page == s1.doc.body
            s2 == [s1 EXCEPT !.reply = Some(s1.doc)]
        IN  IF ~page.msgbox_success
            THEN AdminReject(s2, page, failmsg)
            ELSE UNION {AdminAdopt([s2 EXCEPT !.remote = account], passwd) :
                           account \in Created(s2.remote)}
        : s1 \in Scrape(st, "GET", path, Some(data), SubmitPages)}

\* AdminAccount.create with the password chosen (lines 219-253)
AdminCreateWith(st, passwd) ==
    UNION {
        IF s1.doc.body.csrf_token = None THEN {Raise(s1, "AssertionError")}
        ELSE LET data == FormData(passwd, Val(s1.doc.body.csrf_token))
             IN  IF ~s1.self.exists
                 THEN AdminSubmit(s1, passwd, "Unable to create admin account",
                                  AdminCreatePage, data)
                 ELSE AdminSubmit(s1, passwd, "Unable to update admin account password",
                                  AdminUpdatePage, [id |-> server_number] @@ data)
        : s1 \in Scrape(st, "POST", AdminPage, None, FormPages)}

\* AdminAccount.create
AdminCreate(st, passwd) ==
    IF passwd = None
    THEN UNION {AdminCreateWith(st, g) : g \in GeneratedPasswords}     \* _genpasswd
    ELSE AdminCreateWith(st, Val(passwd))

\* the page that answers the delete request
DeletePages == {[msgbox_success |-> TRUE], [msgbox_success |-> FALSE]}

\* AdminAccount.delete
AdminDelete(st) ==
    IF ~st.self.exists THEN {st}
    ELSE UNION {
            IF ~s1.doc.body.msgbox_success THEN {Raise(s1, "AssertionError")}
            ELSE AdminUpdate_info([s1 EXCEPT !.remote = None])
            : s1 \in Scrape(st, "GET", AdminDeletePage, None, DeletePages)}

AdminStart == [self |-> admin, remote |-> remote] @@ NewFrame

AdminFinish(name, arguments, st) ==
    /\ focus = "admin"
    /\ admin' = st.self
    /\ remote' = st.remote
    /\ Called(name, arguments, st)
    /\ UNCHANGED <<focus, rescueVars, ipVars, subnet, serverVars, askVars>>

Update_info ==
    \E st \in AdminUpdate_info(AdminStart) : AdminFinish("update_info", <<>>, st)

Create ==
    \E passwd \in {None} \cup {Some(p) : p \in SuppliedPasswords} :
        \E st \in AdminCreate(AdminStart, passwd) : AdminFinish("create", <<passwd>>, st)

Delete ==
    \E st \in AdminDelete(AdminStart) : AdminFinish("delete", <<>>, st)

\* somebody creates or removes the account in the provider's web interface
RemoteChange ==
    /\ focus = "admin"
    /\ remote' \in ({None} \cup {Some(l) : l \in RemoteLogins}) \ {remote}
    /\ UNCHANGED <<focus, rescueVars, admin, ipVars, subnet, serverVars, callVars, askVars>>

NextAdmin ==
    \/ Update_info
    \/ Create
    \/ Delete
    \/ RemoteChange

------------------------------------------------------------------------------
(* hetzner.util.addr, for IPv4: an address in text is its four numbers.     *)
(* IPv6 is left out: its 128-bit values are beyond the integers of TLC.     *)

RECURSIVE Pow2(_)
Pow2(n) == IF n = 0 THEN 1 ELSE 2 * Pow2(n - 1)

\* addr.parse_ipaddr: the value of the address, or an error for text that is
\* no address
parse_ipaddr(text) ==
    IF Len(text) = 4 /\ \A i \in 1..4 : text[i] \in 0..255
    THEN [exc |-> "none", is_ipv6 |-> FALSE,
          numeric |-> ((text[1] * 256 + text[2]) * 256 + text[3]) * 256 + text[4]]
    ELSE [exc |-> "ValueError", is_ipv6 |-> FALSE, numeric |-> 0]

\* addr.get_ipv4_range: the host bits of the network value cleared, and set
get_ipv4_range(numeric, mask) ==
    LET hosts == Pow2(32 - mask)
        low == numeric - (numeric % hosts)
    IN  <<low, low + hosts - 1>>

------------------------------------------------------------------------------
(* Documents of subnets and IP addresses *)

ServerIp == <<1, 2, 3, 4>>

\* the subnets the provider knows, and addresses inside and outside them
Networks == {<<10, 0, 0, 0>>, <<10, 0, 1, 0>>}
Members == {<<10, 0, 0, 5>>, <<10, 0, 0, 255>>, <<10, 0, 1, 0>>}

SubnetKeys ==
    <<"ip", "mask", "gateway", "server_ip", "failover", "locked",
      "traffic_warnings", "traffic_hourly", "traffic_daily", "traffic_monthly">>

SubnetBody(net, locked) ==
    [ip |-> net, mask |-> 24, gateway |-> [net EXCEPT ![4] = 1], server_ip |-> ServerIp,
     failover |-> FALSE, locked |-> locked, traffic_warnings |-> FALSE,
     traffic_hourly |-> 200, traffic_daily |-> 2000, traffic_monthly |-> 20]

Without(body, key) == [k \in DOMAIN body \ {key} |-> body[k]]

\* what the transport answers on /subnet/{net_ip}; a malformed document
\* lacks a key, or the "subnet" member
SubnetDocs ==
    {[subnet |-> SubnetBody(n, l)] : n \in Networks, l \in BOOLEAN}
    \cup {[subnet |-> Without(SubnetBody(<<10, 0, 1, 0>>, TRUE), k)] : k \in {"gateway"}}
    \cup {[error |-> None]}

IpKeys ==
    <<"ip", "server_ip", "locked", "separate_mac", "traffic_warnings",
      "traffic_hourly", "traffic_daily", "traffic_monthly">>

IpBody(ip, locked) ==
    [ip |-> ip, server_ip |-> ServerIp, locked |-> locked, separate_mac |-> None,
     traffic_warnings |-> FALSE, traffic_hourly |-> 50, traffic_daily |-> 50,
     traffic_monthly |-> 8]

IpAddrs == {<<1, 2, 3, 4>>, <<1, 2, 3, 5>>}

\* what the transport answers on /ip/{ip}
IpDocs ==
    {[ip |-> IpBody(a, l)] : a \in IpAddrs, l \in BOOLEAN}
    \cup {[ip |-> Without(IpBody(<<1, 2, 3, 5>>, TRUE), k)] : k \in {"separate_mac"}}
    \cup {[error |-> None]}

StdIpDoc == [ip |-> IpBody(<<1, 2, 3, 4>>, FALSE)]
StdSubnetDoc == [subnet |-> SubnetBody(<<10, 0, 0, 0>>, FALSE)]

------------------------------------------------------------------------------
(* IpAddress *)

\* IpAddress.update_info once it has the document (lines 294-314): the object,
\* the exception, and the document as the call leaves it; assigned tells
\* whether _subnet_addr was assigned
IpAdopt(self, result) ==
    IF self.subnet_ip # None
    THEN IF "subnet" \notin DOMAIN result \/ "ip" \notin DOMAIN result.subnet
         THEN [obj |-> self, exc |-> "KeyError", result |-> result, assigned |-> FALSE]
         ELSE LET s1 == SetAttr(self, "_subnet_addr", result.subnet.ip)
                  data == SetAttr(SetAttr(result.subnet, "ip", Val(self.subnet_ip)),
                                  "separate_mac", None)
                  a == AssignFields(s1, data, Same(IpKeys))
              IN  [obj |-> a.obj, exc |-> a.exc, result |-> [subnet |-> data],
                   assigned |-> TRUE]
    ELSE IF "ip" \notin DOMAIN result
         THEN [obj |-> self, exc |-> "KeyError", result |-> result, assigned |-> FALSE]
         ELSE LET a == AssignFields(self, result.ip, Same(IpKeys))
              IN  [obj |-> a.obj, exc |-> a.exc, result |-> result, assigned |-> FALSE]

\* a document with the network address it came with
Handle(doc) ==
    [doc |-> doc,
     net |-> IF "subnet" \in DOMAIN doc /\ "ip" \in DOMAIN doc.subnet
             THEN Some(doc.subnet.ip) ELSE None]

IpParse(st, h) ==
    LET r == IpAdopt(st.self, h.doc)
    IN  [st EXCEPT !.self = r.obj, !.exc = r.exc, !.reply = Some(h.doc),
                   !.doc = [doc |-> r.result, net |-> h.net],
                   !.canon = IF r.assigned THEN h.net ELSE @]

\* the path update_info fetches
IpPath(self) ==
    IF self.subnet_ip # None
    THEN [kind |-> "subnet", key |-> self._subnet_addr]
    ELSE [kind |-> "ip", key |-> self.ip]

\* IpAddress.update_info(result): result is None or Some(handle)
IpUpdate_info(st, result) ==
    IF result = None
    THEN LET got == Send(st, "get", IpPath(st.self), None,
                         IF st.self.subnet_ip # None THEN SubnetDocs ELSE IpDocs)
         IN  Raised(got) \cup {IpParse(s1, Handle(s1.doc)) : s1 \in Passed(got)}
    ELSE {IpParse(st, Val(result))}

\* IpAddress.__init__
IpAddress__init__(st, result, subnet_ip) ==
    {IF s1.exc # "none" THEN s1 ELSE [s1 EXCEPT !.self = SetAttr(@, "_rdns", None)] :
        s1 \in IpUpdate_info([st EXCEPT !.self = [subnet_ip |-> subnet_ip]], Some(result))}

IpAddressInit ==
    SetAttr(IpAdopt([subnet_ip |-> None], StdIpDoc).obj, "_rdns", None)

IpStart == [self |-> ipaddr, canon |-> canon] @@ NewFrame

\* a constructor that raises leaves no object: the one at hand stays
IpConstructed(name, arguments, st) ==
    /\ focus = "ipaddr"
    /\ ipaddr' = IF st.exc = "none" THEN st.self ELSE ipaddr
    /\ canon' = IF st.exc = "none" THEN st.canon ELSE canon
    /\ held' = Some(st.doc)
    /\ Called(name, arguments, st)
    /\ UNCHANGED <<focus, rescueVars, adminVars, subnet, serverVars, askVars>>

IpFinish(name, arguments, st, passed) ==
    /\ focus = "ipaddr"
    /\ ipaddr' = st.self
    /\ canon' = st.canon
    /\ held' = IF passed THEN Some(st.doc) ELSE held
    /\ Called(name, arguments, st)
    /\ UNCHANGED <<focus, rescueVars, adminVars, subnet, serverVars, askVars>>

\* IpAddress(conn, result)
NewIpAddress ==
    \E d \in IpDocs :
        \E st \in IpAddress__init__(IpStart, Handle(d), None) :
            IpConstructed("IpAddress", <<"result">>, st)

\* IpAddress(conn, result, subnet_ip)
NewSubnetIpAddress ==
    \E d \in SubnetDocs, m \in Members :
        \E st \in IpAddress__init__(IpStart, Handle(d), Some(m)) :
            IpConstructed("IpAddress", <<"result", m>>, st)

\* ipaddr.update_info()
IpUpdateInfo ==
    \E st \in IpUpdate_info(IpStart, None) :
        IpFinish("IpAddress.update_info", <<>>, st, FALSE)

\* ipaddr.update_info(result), result a document the caller just got
IpUpdateInfoWith ==
    \E d \in IF ipaddr.subnet_ip # None THEN SubnetDocs ELSE IpDocs :
        \E st \in IpUpdate_info(IpStart, Some(Handle(d))) :
            IpFinish("IpAddress.update_info", <<"result">>, st, TRUE)

\* ipaddr.update_info(result), result the document passed the last time
IpUpdateInfoAgain ==
    /\ held # None
    /\ (ipaddr.subnet_ip # None) = ("subnet" \in DOMAIN Val(held).doc)
    /\ \E st \in IpUpdate_info(IpStart, held) :
           IpFinish("IpAddress.update_info", <<"result">>, st, TRUE)

NextIpAddress ==
    \/ NewIpAddress
    \/ NewSubnetIpAddress
    \/ IpUpdateInfo
    \/ IpUpdateInfoWith
    \/ IpUpdateInfoAgain

------------------------------------------------------------------------------
(* Subnet *)

\* Subnet.update_info once it has the document (lines 355-371)
SubnetAdopt(self, result) ==
    IF "subnet" \notin DOMAIN result THEN [obj |-> self, exc |-> "KeyError"]
    ELSE LET a == AssignFields(self, result.subnet,
                               <<<<"net_ip", "ip">>>> \o Same(Tail(SubnetKeys)))
             o == a.obj
             net == parse_ipaddr(o.net_ip)
             gw == parse_ipaddr(o.gateway)
         IN  IF a.exc # "none" THEN a
             ELSE IF net.exc # "none" THEN [obj |-> o, exc |-> net.exc]
             ELSE LET o1 == SetAttr(SetAttr(o, "is_ipv6", net.is_ipv6),
                                    "numeric_net_ip", net.numeric)
                  IN  IF gw.exc # "none" THEN [obj |-> o1, exc |-> gw.exc]
                      ELSE [obj |-> SetAttr(SetAttr(o1, "numeric_gateway", gw.numeric),
                                            "numeric_range",
                                            get_ipv4_range(net.numeric, o1.mask)),
                            exc |-> "none"]

SubnetParse(st, result) ==
    LET r == SubnetAdopt(st.self, result)
    IN  [st EXCEPT !.self = r.obj, !.exc = r.exc, !.reply = Some(result)]

SubnetPath(self) == [kind |-> "subnet", key |-> self.net_ip]

\* Subnet.update_info(result): result is None or Some(document)
SubnetUpdate_info(st, result) ==
    IF result = None
    THEN LET got == Send(st, "get", SubnetPath(st.self), None, SubnetDocs)
         IN  Raised(got) \cup {SubnetParse(s1, s1.doc) : s1 \in Passed(got)}
    ELSE {SubnetParse(st, Val(result))}

\* Subnet.__contains__(self, addr): inside it the name addr is the argument,
\* a string, and no longer the module hetzner.util.addr, so that
\* addr.parse_ipaddr raises AttributeError
Subnet__contains__(st, addr) ==
    {Raise(st, "AttributeError")}

\* Subnet.get_ip(addr)
Subnet_get_ip(st, addr) ==
    LET test == Subnet__contains__(st, addr)
    IN  Raised(test)
        \cup UNION {
               IF s1.value = Some(TRUE)
               THEN LET got == Send(s1, "get", SubnetPath(s1.self), None, SubnetDocs)
                    IN  Raised(got)
                        \cup {LET r == IpAdopt([subnet_ip |-> Some(addr)], s2.doc)
                              IN  IF r.exc # "none" THEN Raise(s2, r.exc)
                                  ELSE Return(s2, Some(SetAttr(r.obj, "_rdns", None)))
                              : s2 \in Passed(got)}
               ELSE {Return(s1, None)}
               : s1 \in Passed(test)}

SubnetInit == SubnetAdopt(<<>>, StdSubnetDoc).obj

SubnetStart == [self |-> subnet] @@ NewFrame

SubnetFinish(name, arguments, st) ==
    /\ focus = "subnet"
    /\ subnet' = st.self
    /\ Called(name, arguments, st)
    /\ UNCHANGED <<focus, rescueVars, adminVars, ipVars, serverVars, askVars>>

\* Subnet(conn, result); a constructor that raises leaves no object
NewSubnet ==
    \E d \in SubnetDocs :
        \E st \in SubnetUpdate_info([SubnetStart EXCEPT !.self = <<>>], Some(d)) :
            SubnetFinish("Subnet", <<"result">>,
                         IF st.exc = "none" THEN st ELSE [st EXCEPT !.self = subnet])

SubnetUpdateInfo ==
    \E st \in SubnetUpdate_info(SubnetStart, None) :
        SubnetFinish("Subnet.update_info", <<>>, st)

SubnetUpdateInfoWith ==
    \E d \in SubnetDocs :
        \E st \in SubnetUpdate_info(SubnetStart, Some(d)) :
            SubnetFinish("Subnet.update_info", <<"result">>, st)

\* address in subnet
SubnetContains ==
    \E a \in Members :
        \E st \in Subnet__contains__(SubnetStart, a) :
            SubnetFinish("Subnet.__contains__", <<a>>, st)

SubnetGetIp ==
    \E a \in Members :
        \E st \in Subnet_get_ip(SubnetStart, a) :
            SubnetFinish("Subnet.get_ip", <<a>>, st)

NextSubnet ==
    \/ NewSubnet
    \/ SubnetUpdateInfo
    \/ SubnetUpdateInfoWith
    \/ SubnetContains
    \/ SubnetGetIp

------------------------------------------------------------------------------
(* Server, IpManager, SubnetManager *)

\* bool(x) for x a string or None
TruthyStr(o) == o # None /\ Val(o) # ""

DaysIn(year, month) ==
    IF month \in {4, 6, 9, 11} THEN 30
    ELSE IF month # 2 THEN 31
    ELSE IF year % 4 = 0 /\ (year % 100 # 0 \/ year % 400 = 0) THEN 29 ELSE 28

\* datetime.strptime(text, "%Y-%m-%d"), text given as its three numbers
strptime(text) ==
    IF text[2] \in 1..12 /\ text[3] \in 1..DaysIn(text[1], text[2])
    THEN [exc |-> "none", date |-> [year |-> text[1], month |-> text[2], day |-> text[3]]]
    ELSE [exc |-> "ValueError", date |-> <<>>]

ServerNames == {"web1", "web2"}

ServerBody(server_ip, server_ipv6_net, name) ==
    [server_ip |-> server_ip, server_ipv6_net |-> server_ipv6_net,
     server_number |-> server_number, server_name |-> name, product |-> "EX40",
     dc |-> "FSN1-DC1", traffic |-> "5 TB", status |-> "ready", subnet |-> None,
     cancelled |-> FALSE, paid_until |-> <<2030, 1, 31>>, linked_storagebox |-> None]

\* the addresses a server document can give: both, one of them, none, or an
\* empty server_ip
ServerAddresses ==
    {<<Some("1.2.3.4"), Some("2a01:4f8:0:1::")>>,
     <<Some("1.2.3.4"), None>>,
     <<None, Some("2a01:4f8:0:1::")>>,
     <<Some(""), Some("2a01:4f8:0:1::")>>,
     <<None, None>>}

\* what the transport answers on /server/{ip}; a malformed document lacks a
\* key, gives a date that is none, or lacks the "server" member
ServerDocs ==
    {[server |-> ServerBody(a[1], a[2], "web1")] : a \in ServerAddresses}
    \cup {[server |-> ServerBody(Some("1.2.3.4"), Some("2a01:4f8:0:1::"), "web2")]}
    \cup {[server |-> Without(ServerBody(Some("1.2.3.4"), None, "web2"), k)] :
             k \in {"status"}}
    \cup {[server |-> [ServerBody(Some("1.2.3.4"), None, "web2")
                          EXCEPT !.paid_until = <<2030, 2, 30>>]]}
    \cup {[error |-> None]}

StdServerDoc == [server |-> ServerBody(Some("1.2.3.4"), Some("2a01:4f8:0:1::"), "web1")]

\* Server.update_info, lines 459-466: the ip of the server
ResolveIp(self, data) ==
    IF "server_ip" \notin DOMAIN data THEN [obj |-> self, exc |-> "KeyError"]
    ELSE IF TruthyStr(data.server_ip)
         THEN [obj |-> SetAttr(self, "ip", data.server_ip), exc |-> "none"]
    ELSE IF data.server_ip # None
         THEN [obj |-> SetAttr(self, "ip", data.server_ip), exc |-> "none"]
    ELSE IF "server_ipv6_net" \notin DOMAIN data THEN [obj |-> self, exc |-> "KeyError"]
    ELSE IF TruthyStr(data.server_ipv6_net) /\ data.server_ipv6_net # None
         THEN [obj |-> SetAttr(self, "ip", Some(Val(data.server_ipv6_net) \o "2")),
               exc |-> "none"]
    ELSE [obj |-> SetAttr(self, "ip", None), exc |-> "none"]

\* Server.update_info once it has the document (lines 457-477)
ServerAdopt(self, result) ==
    IF "server" \notin DOMAIN result THEN [obj |-> self, exc |-> "KeyError"]
    ELSE LET data == result.server
             r == ResolveIp(self, data)
             a == AssignFields(r.obj, data,
                               << <<"number", "server_number">>, <<"name", "server_name">>,
                                  <<"product", "product">>, <<"datacenter", "dc">>,
                                  <<"traffic", "traffic">>, <<"status", "status">>,
                                  <<"subnets", "subnet">>, <<"cancelled", "cancelled">> >>)
         IN  IF r.exc # "none" THEN r
             ELSE IF a.exc # "none" THEN a
             ELSE IF "paid_until" \notin DOMAIN data THEN [obj |-> a.obj, exc |-> "KeyError"]
             ELSE IF strptime(data.paid_until).exc # "none"
                  THEN [obj |-> a.obj, exc |-> strptime(data.paid_until).exc]
             ELSE AssignFields(SetAttr(a.obj, "paid_until", strptime(data.paid_until).date),
                               data, Same(<<"linked_storagebox">>))

\* the document parsed goes on the record of the call as reply
ServerParse(st, result) ==
    LET r == ServerAdopt(st.self, result)
    IN  [st EXCEPT !.self = r.obj, !.exc = r.exc, !.reply = Some(result)]

ServerPath(self) == [kind |-> "server", key |-> self.ip]

\* an update_info that, given the document, keeps the ip it has
ServerUpdate_info_KeepIp(st, result) ==
    IF result = None
    THEN LET got == Send(st, "get", ServerPath(st.self), None, ServerDocs)
         IN  Raised(got) \cup {ServerParse(s1, s1.doc) : s1 \in Passed(got)}
    ELSE {LET s1 == ServerParse(st, Val(result))
          IN  IF "ip" \in DOMAIN st.self /\ s1.exc = "none"
              THEN [s1 EXCEPT !.self = SetAttr(@, "ip", st.self.ip)] ELSE s1}

\* Server.update_info(result): result is None or Some(document)
ServerUpdate_info(st, result) ==
    IF result = None
    THEN LET got == Send(st, "get", ServerPath(st.self), None, ServerDocs)
         IN  Raised(got) \cup {ServerParse(s1, s1.doc) : s1 \in Passed(got)}
    ELSE {ServerParse(st, Val(result))}

\* Server.set_name
Server_set_name(st, name) ==
    LET got == Send(st, "post", ServerPath(st.self), Some([server_name |-> name]), ServerDocs)
    IN  Raised(got)
        \cup UNION {ServerUpdate_info([s1 EXCEPT !.reply = Some(s1.doc)], Some(s1.doc)) :
                       s1 \in Passed(got)}

\* the objects a list comprehension makes of the documents of a list, each by
\* New(document); the first that raises ends it
RECURSIVE IpAddresses(_)
IpAddresses(result) ==
    IF result = <<>> THEN [objs |-> <<>>, exc |-> "none"]
    ELSE LET r == IpAdopt([subnet_ip |-> None], Head(result))
             rest == IpAddresses(Tail(result))
         IN  IF r.exc # "none" THEN [objs |-> <<>>, exc |-> r.exc]
             ELSE IF rest.exc # "none" THEN rest
             ELSE [objs |-> <<SetAttr(r.obj, "_rdns", None)>> \o rest.objs, exc |-> "none"]

RECURSIVE Subnets(_)
Subnets(result) ==
    IF result = <<>> THEN [objs |-> <<>>, exc |-> "none"]
    ELSE LET r == SubnetAdopt(<<>>, Head(result))
             rest == Subnets(Tail(result))
         IN  IF r.exc # "none" THEN [objs |-> <<>>, exc |-> r.exc]
             ELSE IF rest.exc # "none" THEN rest
             ELSE [objs |-> <<r.obj>> \o rest.objs, exc |-> "none"]

\* the longest list a collection endpoint answers
MaxList == 2

Lists(Documents) == UNION {[1..n -> Documents] : n \in 0..MaxList}

\* what the transport answers on /ip?server_ip=... and /subnet?server_ip=...
IpLists == Lists({StdIpDoc, [error |-> None]})
SubnetLists == Lists({StdSubnetDoc, [error |-> None]})

\* what the transport did, for the record of the call
Answer(s) == Some([exc |-> s.exc, status |-> s.status, doc |-> s.doc])

Listed(st, made) ==
    IF made.exc # "none" THEN Raise(st, made.exc) ELSE Return(st, Some(made.objs))

\* IpManager.__iter__
IpManager__iter__(st) ==
    LET got == Send(st, "get", [kind |-> "ip?server_ip", key |-> st.ips.main_ip],
                    None, IpLists)
    IN  {LET s1 == [s EXCEPT !.reply = Answer(s)]
         IN  IF s.exc = "RobotError"                                \* result = []
             THEN Listed([s1 EXCEPT !.exc = "none", !.status = 0], IpAddresses(<<>>))
             ELSE Listed(s1, IpAddresses(s.doc))
         : s \in got}

\* a SubnetManager.__iter__ that lets the 404 through
SubnetManager__iter___Raising(st) ==
    LET got == Send(st, "get", [kind |-> "subnet?server_ip", key |-> st.subnetManager.main_ip],
                    None, SubnetLists)
    IN  {LET s1 == [s EXCEPT !.reply = Answer(s)]
         IN  IF s.exc = "RobotError" THEN s1 ELSE Listed(s1, Subnets(s.doc))
         : s \in got}

\* SubnetManager.__iter__: after a RobotError that is no 404 the name result
\* is unbound at line 425
SubnetManager__iter__(st) ==
    LET got == Send(st, "get", [kind |-> "subnet?server_ip", key |-> st.subnetManager.main_ip],
                    None, SubnetLists)
    IN  {LET s1 == [s EXCEPT !.reply = Answer(s)]
         IN  IF s.exc = "RobotError"
             THEN IF s.status = 404                                 \* result = []
                  THEN Listed([s1 EXCEPT !.exc = "none", !.status = 0], Subnets(<<>>))
                  ELSE [s1 EXCEPT !.exc = "UnboundLocalError", !.status = 0]
             ELSE Listed(s1, Subnets(s.doc))
         : s \in got}

\* Server.__init__ lines 431-437
ServerInit == ServerAdopt(<<>>, StdServerDoc).obj

ServerStart ==
    [self |-> server, ips |-> ips, subnetManager |-> subnetManager] @@ NewFrame

ServerFinish(name, arguments, st) ==
    /\ focus = "server"
    /\ server' = st.self
    /\ ips' = st.ips
    /\ subnetManager' = st.subnetManager
    /\ Called(name, arguments, st)
    /\ UNCHANGED <<focus, rescueVars, adminVars, ipVars, subnet, askVars>>

\* Server(conn, result), and SubnetManager(conn, server.ip) for it; a
\* constructor that raises leaves no object
NewServer ==
    \E d \in ServerDocs :
        \E st \in ServerUpdate_info([ServerStart EXCEPT !.self = <<>>], Some(d)) :
            ServerFinish("Server", <<"result">>,
                IF st.exc # "none" THEN [st EXCEPT !.self = server]
                ELSE [st EXCEPT !.ips = [main_ip |-> st.self.ip],
                                !.subnetManager = [main_ip |-> st.self.ip]])

ServerUpdateInfo ==
    \E st \in ServerUpdate_info(ServerStart, None) :
        ServerFinish("Server.update_info", <<>>, st)

ServerUpdateInfoWith ==
    \E d \in ServerDocs :
        \E st \in ServerUpdate_info(ServerStart, Some(d)) :
            ServerFinish("Server.update_info", <<"result">>, st)

SetName ==
    \E name \in ServerNames :
        \E st \in Server_set_name(ServerStart, name) :
            ServerFinish("Server.set_name", <<name>>, st)

\* iter(server.ips)
IterIps ==
    \E st \in IpManager__iter__(ServerStart) :
        ServerFinish("IpManager.__iter__", <<>>, st)

\* iter(subnetManager)
IterSubnets ==
    \E st \in SubnetManager__iter__(ServerStart) :
        ServerFinish("SubnetManager.__iter__", <<>>, st)

NextServer ==
    \/ NewServer
    \/ ServerUpdateInfo
    \/ ServerUpdateInfoWith
    \/ SetName
    \/ IterIps
    \/ IterSubnets

------------------------------------------------------------------------------
(* SSHAskPassHelper, and the with statement of RescueSystem.shell that uses *)
(* it.  Text is a sequence of characters.                                   *)

Ascii == {"p", "w", "'", "\\"}

\* the passwords a helper is made with: plain, with a quote, with a character
\* outside ASCII, and the None of a rescue system that reports no password
Passwords == {Some(<<"p", "w">>), Some(<<"p", "'", "w">>), Some(<<"p", "é">>), None}

\* passwd.replace("'", r"'\''")
RECURSIVE Escape(_)
Escape(text) ==
    IF text = <<>> THEN <<>>
    ELSE (IF Head(text) = "'" THEN <<"'", "\\", "'", "'">> ELSE <<Head(text)>>)
         \o Escape(Tail(text))

\* f"#!/bin/sh\necho -n '{esc_passwd}'"
Script(esc_passwd) == <<"#!/bin/sh\necho -n '">> \o esc_passwd \o <<"'">>

NoFiles == [dir |-> FALSE, file |-> None]

\* a call of the operating system that can fail: it raises OSError, or goes on
OsCall(st) == {Raise(st, "OSError"), st}

\* SSHAskPassHelper.__enter__
AskPass__enter__(st) ==
    LET made == {IF s.exc # "none" THEN s                       \* mkdtemp
                 ELSE [s EXCEPT !.self.tempdir = Some("tmp"), !.fs.dir = TRUE] :
                    s \in OsCall(st)}
        opened == {IF s.exc # "none" THEN s                     \* os.open
                   ELSE [s EXCEPT !.self.script = Some("tmp/askpass"),
                                  !.fs.file = Some(<<>>)] :
                      s \in UNION {OsCall(s0) : s0 \in Passed(made)}}
        encoded == {IF s.self.passwd = None THEN Raise(s, "AttributeError")
                    ELSE IF \E i \in DOMAIN Val(s.self.passwd) :
                               Val(s.self.passwd)[i] \notin Ascii
                         THEN Raise(s, "UnicodeEncodeError")
                    ELSE s : s \in Passed(opened)}
        written == {IF s.exc # "none" THEN s                    \* os.write
                    ELSE [s EXCEPT !.fs.file = Some(Script(Escape(Val(s.self.passwd))))] :
                       s \in UNION {OsCall(s0) : s0 \in Passed(encoded)}}
        closed == UNION {OsCall(s0) : s0 \in Passed(written)}   \* os.close
    IN  Raised(made) \cup Raised(opened) \cup Raised(encoded) \cup Raised(written)
        \cup Raised(closed) \cup {Return(s, s.self.script) : s \in Passed(closed)}

\* SSHAskPassHelper.__exit__; it returns None, so that an exception of the
\* block goes on
AskPass__exit__(st) ==
    LET unlinked == IF st.self.script # None THEN [st EXCEPT !.fs.file = None] ELSE st
    IN  IF st.self.tempdir # None THEN [unlinked EXCEPT !.fs.dir = FALSE] ELSE unlinked

\* how subprocess.check_call(cmd, env=env, ...) can end
SessionEnds == {"none", "CalledProcessError", "OSError"}

\* with SSHAskPassHelper(passwd) as askpass: subprocess.check_call(...)
\* (lines 159-172).  __exit__ runs however the block ends, and does not run
\* when __enter__ raised.
WithAskPass(st, passwd) ==
    LET entered == AskPass__enter__(
                       [st EXCEPT !.self = [passwd |-> passwd, tempdir |-> None,
                                            script |-> None],
                                  !.fs = NoFiles])
    IN  Raised(entered)
        \cup {AskPass__exit__(Raise(s, e)) : s \in Passed(entered), e \in SessionEnds}

AskPassStart == [self |-> helper, fs |-> fs] @@ NewFrame

\* a use of the helper; the value on record is the script the block was given
AskPassSession ==
    /\ focus = "askpass"
    /\ \E passwd \in Passwords :
           \E st \in WithAskPass(AskPassStart, passwd) :
               /\ helper' = st.self
               /\ fs' = st.fs
               /\ Called("SSHAskPassHelper", <<passwd>>, [st EXCEPT !.reply = st.value])
    /\ UNCHANGED <<focus, rescueVars, adminVars, ipVars, subnet, serverVars>>

NextAskPass ==
    \/ AskPassSession

------------------------------------------------------------------------------
(* The state after construction, and the specifications *)

Objects == {"rescue", "admin", "ipaddr", "subnet", "server", "askpass"}

Init ==
    /\ focus \in Objects
    /\ rescue = RescueInit
    /\ src = [_active |-> 0, _password |-> 0, _authorized_keys |-> 0]
    /\ admin = AdminInit
    /\ remote = None
    /\ ipaddr = IpAddressInit
    /\ held = None
    /\ canon = None
    /\ subnet = SubnetInit
    /\ server = ServerInit
    /\ ips = [main_ip |-> ServerInit.ip]
    /\ subnetManager = [main_ip |-> ServerInit.ip]
    /\ helper = [passwd |-> None, tempdir |-> None, script |-> None]
    /\ fs = NoFiles
    /\ op = "none"
    /\ args = <<>>
    /\ reqs = <<>>
    /\ ret = NoCall.ret
    /\ prev = NoCall

(* Properties *)

IterOps == {"IpManager.__iter__", "SubnetManager.__iter__"}

\* the collection endpoint raised a provider error with status 404
NotFound ==
    ret.reply # None /\ Val(ret.reply).exc = "RobotError" /\ Val(ret.reply).status = 404

\* the collection endpoint returned an explicit empty list
EmptyList ==
    ret.reply # None /\ Val(ret.reply).exc = "none" /\ Val(ret.reply).doc = <<>>

\* C1: iterating an IpManager or a SubnetManager whose collection endpoint
\* raises a provider error with status 404 gives what iterating gives when
\* the endpoint returns an explicit empty list: an empty sequence, and no
\* error for the caller.
C1_NotFoundIsEmpty ==
    (op \in IterOps /\ (NotFound \/ EmptyList)) =>
        /\ ret.exc = "none"
        /\ ret.value = Some(<<>>)

\* C1: a SubnetManager was iterated and the endpoint answered 404
C1_Witness ==
    op = "SubnetManager.__iter__" /\ NotFound /\ ret.exc = "none" /\ Len(reqs) = 1

\* C1, the other cases: an IpManager on 404, and each manager on an empty list
C1_WitnessIps ==
    op = "IpManager.__iter__" /\ NotFound /\ ret.exc = "none" /\ Len(reqs) = 1

C1_WitnessEmptyIps ==
    op = "IpManager.__iter__" /\ EmptyList /\ ret.exc = "none"

C1_WitnessEmptySubnets ==
    op = "SubnetManager.__iter__" /\ EmptyList /\ ret.exc = "none"

\* C2: when the collection fetch of an IpManager or a SubnetManager raises a
\* provider error whose status is not 404, the caller gets that same error:
\* no empty sequence, no other error.
C2_OtherErrorsPropagate ==
    (op \in IterOps /\ ret.reply # None /\ Val(ret.reply).exc = "RobotError"
        /\ Val(ret.reply).status # 404) =>
        /\ ret.exc = "RobotError"
        /\ ret.status = Val(ret.reply).status

\* the canonical path of an object: keyed by its own address, and for an
\* IpAddress of a subnet context by the network address the transport gave
CanonicalIpPath ==
    IF ipaddr.subnet_ip # None
    THEN [kind |-> "subnet", key |-> Val(canon)]
    ELSE [kind |-> "ip", key |-> ipaddr.ip]

Fetch(path) == IF args' = <<>> THEN <<Request("get", path, None)>> ELSE <<>>

\* C5: an update_info call of an IpAddress, a Subnet or a Server without data
\* makes exactly one fetch, of the canonical path of the object, and one with
\* data makes none; Server.set_name makes exactly one request, the POST, and
\* takes the fields of the server from its response.
C5_OneFetchOrNone ==
    [][ /\ op' = "IpAddress.update_info" => reqs' = Fetch(CanonicalIpPath)
        /\ op' = "Subnet.update_info" =>
              reqs' = Fetch([kind |-> "subnet", key |-> subnet.net_ip])
        /\ op' = "Server.update_info" =>
              reqs' = Fetch([kind |-> "server", key |-> server.ip])
        /\ op' = "Server.set_name" =>
              /\ reqs' = <<Request("post", [kind |-> "server", key |-> server.ip],
                                   Some([server_name |-> args'[1]]))>>
              /\ ret'.exc = "none" =>
                    /\ server'.name = Val(ret'.reply).server.server_name
                    /\ server'.ip \in {Val(ret'.reply).server.server_ip,
                                       Some("2a01:4f8:0:1::2"), None} ]_vars

\* C6: an IpAddress made with a subnet_ip keys its refresh fetch by the
\* network address the transport returned for the subnet, and its ip field
\* is the member address, whatever update_info calls were made, also with a
\* document that was passed before.
C6_SubnetContextKey ==
    ipaddr.subnet_ip # None =>
        /\ IpPath(ipaddr) = [kind |-> "subnet", key |-> Val(canon)]
        /\ ipaddr.ip = Val(ipaddr.subnet_ip)

\* C7: address in subnet is true exactly when the value of the address lies
\* in the range of the subnet; get_ip gives an IpAddress of a contained
\* address, and None without a fetch for an address outside.
Contained(address) ==
    /\ subnet.numeric_range[1] <= parse_ipaddr(address).numeric
    /\ parse_ipaddr(address).numeric <= subnet.numeric_range[2]

C7_Containment ==
    /\ op = "Subnet.__contains__" =>
          ret.exc = "none" /\ ret.value = Some(Contained(args[1]))
    /\ op = "Subnet.get_ip" =>
          IF Contained(args[1])
          THEN ret.exc = "none" => (ret.value # None /\ Val(ret.value).ip = args[1])
          ELSE ret.exc = "none" /\ ret.value = None /\ reqs = <<>>

Mutations(rs) == Cardinality({i \in DOMAIN rs : rs[i].method \in {"post", "delete"}})

\* C3: of two activate calls in a row, the first of which posted and was
\* answered active=True, the first issues the only mutating request: one
\* POST to the rescue endpoint over both calls, none by the second.
C3_ActivateTwiceOnePost ==
    (prev.op = "activate" /\ op = "activate" /\ prev.ret.reply = Some(TRUE))
        => /\ Mutations(reqs) = 0
           /\ Mutations(prev.reqs) = 1
           /\ prev.reqs[Len(prev.reqs)] \in
                  {Request("post", RescuePath, ActivateOpts(k)) :
                      k \in {None, Some(<<"k1">>)}}

\* C3: the second of two activate calls returned, after the first was
\* answered active=True
C3_Witness ==
    /\ prev.op = "activate" /\ prev.ret.reply = Some(TRUE) /\ prev.ret.exc = "none"
    /\ op = "activate" /\ ret.exc = "none"

\* C4: activate on a cached ACTIVE state, deactivate on a cached INACTIVE
\* state and AdminAccount.delete with exists False return normally, issue no
\* request and leave every cached field as it was.
NoRequestNoChange ==
    /\ reqs' = <<>>
    /\ ret'.exc = "none"
    /\ rescue' = rescue /\ src' = src
    /\ admin' = admin

C4_NoOpInTargetState ==
    [][ /\ (rescue._active = Some(TRUE) /\ Activate) => NoRequestNoChange
        /\ (rescue._active = Some(FALSE) /\ Deactivate) => NoRequestNoChange
        /\ (~admin.exists /\ Delete) => NoRequestNoChange ]_vars

\* C4: delete was called on an account that was found earlier and is known to
\* be gone; it returned without a request
C4_Witness ==
    /\ op = "delete" /\ reqs = <<>> /\ ret.exc = "none"
    /\ ~admin.exists /\ admin.login # None

\* C4, the other two cases: deactivate returned without a request on a cached
\* INACTIVE state, activate on a cached ACTIVE state
C4_WitnessDeactivate ==
    op = "deactivate" /\ reqs = <<>> /\ ret.exc = "none" /\ rescue._active = Some(FALSE)

C4_WitnessActivate ==
    op = "activate" /\ reqs = <<>> /\ ret.exc = "none" /\ rescue._active = Some(TRUE)

\* C8: a create whose submission is answered with the success marker re-runs
\* the discovery after the submission; when it returns, exists is True, passwd
\* is the submitted password, and that password is what it returns.
Marker == ret.reply # None /\ Val(ret.reply).body.msgbox_success

C8_CreateSuccess ==
    (op = "create" /\ Marker) =>
        /\ Len(reqs) = 4
        /\ reqs[2].path \in {AdminCreatePage, AdminUpdatePage}
        /\ reqs[3].method = "login"
        /\ reqs[4] = Request("GET", AdminPage, None)
        /\ ret.exc = "none" =>
              /\ admin.exists
              /\ admin.passwd = Some(Val(reqs[2].opts).new_password)
              /\ Val(ret.value)[2] = Some(Val(reqs[2].opts).new_password)

\* C8: a create with a generated password returned, on an account that did
\* not exist before
C8_Witness ==
    /\ op = "create" /\ Marker /\ ret.exc = "none"
    /\ reqs[2].path = AdminCreatePage
    /\ Val(reqs[2].opts).new_password \in GeneratedPasswords

\* C9: a create whose submission is answered without the success marker
\* raises WebRobotError whatever the status of the response: with every
\* listed reason when the page has an error list, the bare failure message
\* otherwise.  It does not re-run the discovery and leaves exists, login and
\* passwd as they were.
Reasons(errors) ==
    IF Len(errors) = 2 THEN errors[1] \o ", " \o errors[2] ELSE errors[1]

C9_CreateFailure ==
    [][ (op' = "create" /\ ret'.reply # None /\ ~Val(ret'.reply).body.msgbox_success
            /\ Create) =>
          LET page == Val(ret'.reply).body
              failmsg == IF admin.exists THEN "Unable to update admin account password"
                         ELSE "Unable to create admin account"
          IN  /\ ret'.exc = "WebRobotError"
              /\ ret'.msg = IF page.error_list = None THEN failmsg
                            ELSE failmsg \o ": " \o Reasons(Val(page.error_list))
              /\ Len(reqs') = 2
              /\ admin' = admin ]_vars

\* C9: an update of the password was rejected with status 200 and two reasons
C9_Witness ==
    /\ op = "create" /\ ret.exc = "WebRobotError"
    /\ Val(ret.reply).status = 200
    /\ Val(ret.reply).body.error_list = Some(<<"too short", "no digit">>)
    /\ admin.exists /\ admin.passwd # None

\* C10: active, password and authorized_keys are all unfetched or all taken
\* from one and the same status document
C10_OneDocument ==
    src._active = src._password /\ src._password = src._authorized_keys

\* the property a read is named after, and the field behind it
FieldOf(name) ==
    IF name = "active" THEN "_active"
    ELSE IF name = "password" THEN "_password" ELSE "_authorized_keys"

\* C11: once a status document was fetched or adopted (each of the three
\* fields was taken from a document), a read of active, password or
\* authorized_keys returns the cached value and makes no fetch, also when the
\* value is false, null or an empty list.
C11_NoRefetch ==
    [][ (src._active # 0 /\ src._password # 0 /\ src._authorized_keys # 0
            /\ op' \in {"active", "password", "authorized_keys"}) =>
          /\ reqs' = <<>>
          /\ ret'.exc = "none"
          /\ ret'.value = rescue[FieldOf(op')]
          /\ rescue' = rescue ]_vars

ServerParsing == {"Server", "Server.update_info", "Server.set_name"}

\* C12: after Server.update_info has parsed a document, ip is server_ip when
\* the document has one; otherwise it is server_ipv6_net when the document
\* has one; otherwise it is null.  So ip is one of the two values of the
\* document, or null.
C12_IpPrecedence ==
    (op \in ServerParsing /\ ret.exc = "none") =>
        LET data == Val(ret.reply).server
        IN  server.ip = IF data.server_ip # None THEN data.server_ip
                        ELSE IF data.server_ipv6_net # None THEN data.server_ipv6_net
                        ELSE None

\* C13: with a null ip, update_info without data, set_name and the iteration
\* of the IP manager of the server fail and issue no request.
C13_NullIpFails ==
    [][ (server.ip = None
            /\ \/ op' = "Server.update_info" /\ args' = <<>>
               \/ op' = "Server.set_name"
               \/ op' = "IpManager.__iter__") =>
          /\ reqs' = <<>>
          /\ ret'.exc # "none" ]_vars

\* C14: when a use of the askpass helper has ended, however it ended, neither
\* its script nor its temporary directory is there.
C14_NothingRemains ==
    op = "SSHAskPassHelper" => fs = NoFiles

\* how a call can leave the object: its fields and the exception
Outcomes(frames) == {<<s.self, s.exc>> : s \in frames}

\* C15: for an IpAddress, a Subnet and a Server, update_info(doc) with a
\* document equal to one update_info() can fetch leaves the object with the
\* field values that update_info() leaves it with when it fetches that
\* document.
C15_RoundTrip ==
    [][ /\ (op' = "IpAddress.update_info" /\ ret'.reply # None) =>
              LET fetched == {s \in IpUpdate_info(IpStart, None) : s.reply = ret'.reply}
                  given == IpUpdate_info(IpStart, Some(Handle(Val(ret'.reply))))
              IN  fetched # {} =>
                     /\ Outcomes(fetched) = Outcomes(given)
                     /\ <<ipaddr', ret'.exc>> \in Outcomes(given)
        /\ (op' = "Subnet.update_info" /\ ret'.reply # None) =>
              LET fetched == {s \in SubnetUpdate_info(SubnetStart, None) :
                                 s.reply = ret'.reply}
                  given == SubnetUpdate_info(SubnetStart, ret'.reply)
              IN  fetched # {} =>
                     /\ Outcomes(fetched) = Outcomes(given)
                     /\ <<subnet', ret'.exc>> \in Outcomes(given)
        /\ (op' = "Server.update_info" /\ ret'.reply # None) =>
              LET fetched == {s \in ServerUpdate_info(ServerStart, None) :
                                 s.reply = ret'.reply}
                  given == ServerUpdate_info(ServerStart, ret'.reply)
              IN  fetched # {} =>
                     /\ Outcomes(fetched) = Outcomes(given)
                     /\ <<server', ret'.exc>> \in Outcomes(given) ]_vars

\* C15: a Server was given a document that update_info() can fetch, and took
\* another ip from it
C15_Witness ==
    /\ op = "Server.update_info" /\ args = <<"result">> /\ ret.exc = "none"
    /\ Val(ret.reply) \in ServerDocs
    /\ server.ip = Some("2a01:4f8:0:1::2")

\* C15, the other objects: an IpAddress of a subnet context and a Subnet were
\* given such a document
C15_WitnessIp ==
    /\ op = "IpAddress.update_info" /\ args = <<"result">> /\ ret.exc = "none"
    /\ Val(ret.reply) \in SubnetDocs /\ ipaddr.subnet_ip # None

C15_WitnessSubnet ==
    /\ op = "Subnet.update_info" /\ args = <<"result">> /\ ret.exc = "none"
    /\ Val(ret.reply) \in SubnetDocs /\ subnet.net_ip = <<10, 0, 1, 0>>

Reboots(rs) == Cardinality({i \in DOMAIN rs : rs[i].method = "observed_reboot"})

\* C16: observed_activate and observed_deactivate issue the boot-mode request
\* at most once; they invoke the reboot-and-wait primitive exactly once, and
\* after every request of the call, when the flip went through or was not
\* needed, and not at all when the boot-mode request (or the read of the
\* state before it) failed.
C16_FlipThenReboot ==
    op \in {"observed_activate", "observed_deactivate"} =>
        /\ Mutations(reqs) <= 1
        /\ Reboots(reqs) = IF ret.exc \in {"none", "ResetError"} THEN 1 ELSE 0
        /\ Reboots(reqs) = 1 => reqs[Len(reqs)].method = "observed_reboot"
        /\ (ret.exc = "RobotError" /\ reqs[Len(reqs)].method \in {"post", "delete"})
              => Reboots(reqs) = 0

\* C16: observed_activate posted, the rescue system is active, and the
\* reboot-and-wait primitive was invoked after the POST
C16_Witness ==
    /\ op = "observed_activate" /\ ret.exc = "none"
    /\ Len(reqs) >= 2 /\ reqs[Len(reqs) - 1].method = "post"
    /\ reqs[Len(reqs)].method = "observed_reboot"
    /\ rescue._active = Some(TRUE)

\* C16, the other cases: the DELETE of observed_deactivate failed; nothing
\* was to be done and the reboot was invoked all the same
C16_WitnessFailed ==
    /\ op = "observed_deactivate" /\ ret.exc = "RobotError"
    /\ reqs[Len(reqs)].method = "delete"

C16_WitnessNoOp ==
    /\ op = "observed_deactivate" /\ ret.exc = "none"
    /\ Mutations(reqs) = 0 /\ Reboots(reqs) = 1

UpdateOps == {"IpAddress.update_info", "Subnet.update_info", "Server.update_info"}

\* C17: whenever a Subnet.update_info call has returned or raised, is_ipv6,
\* numeric_net_ip and the numeric range are those computed from the net_ip
\* and the mask the subnet holds.
C17_RangeFromFields ==
    op = "Subnet.update_info" =>
        /\ parse_ipaddr(subnet.net_ip).exc = "none"
        /\ subnet.is_ipv6 = parse_ipaddr(subnet.net_ip).is_ipv6
        /\ subnet.numeric_net_ip = parse_ipaddr(subnet.net_ip).numeric
        /\ subnet.numeric_range =
               get_ipv4_range(parse_ipaddr(subnet.net_ip).numeric, subnet.mask)

\* C18: an update_info of a Server, an IpAddress or a Subnet whose document
\* lacks an expected field fails and leaves every field of the object as it
\* was before the call.
C18_MalformedLeavesFields ==
    [][ (op' \in UpdateOps /\ ret'.exc = "KeyError") =>
          /\ ipaddr' = ipaddr
          /\ subnet' = subnet
          /\ server' = server ]_vars

\* C19: after any Server operation the main_ip of the IP manager of the
\* server is the ip of the server.
C19_ManagerKeyIsServerIp ==
    ips.main_ip = server.ip

\* C20: an AdminAccount with exists False holds no login and no password.
C20_GoneAccountHoldsNothing ==
    ~admin.exists => (admin.login = None /\ admin.passwd = None)


Next ==
    \/ NextRescue
    \/ NextAdmin
    \/ NextIpAddress
    \/ NextSubnet
    \/ NextServer
    \/ NextAskPass

Spec == Init /\ [][Next]_vars

====
